---- MODULE Spec2Model ----
(***************************************************************************)
(* A model of Data_Analysis_Agent.py: a Streamlit script that is re-run    *)
(* from top to bottom on every user interaction.  Text is modelled as a    *)
(* sequence of one-character strings so that substring tests, quote        *)
(* doubling, regex search and strip() are computed as the code computes    *)
(* them.                                                                   *)
(***************************************************************************)
EXTENDS Integers, Sequences, FiniteSets, TLC

\* ------------------------------------------------------------------ bounds
\* Largest number of data rows of an uploaded file.
MaxRows == 2
\* Largest number of tokens of a model response.
MaxRespLen == 5

\* ------------------------------------------------------------ text helpers
QUOTE == "\""
NoText == <<>>

RECURSIVE Concat(_)
\* Flatten a sequence of texts into one text.
Concat(ss) == IF ss = <<>> THEN <<>> ELSE Head(ss) \o Concat(Tail(ss))

\* s[i..] starts with p (1-based).
StartsAt(s, i, p) ==
    /\ i >= 1
    /\ i + Len(p) - 1 <= Len(s)
    /\ SubSeq(s, i, i + Len(p) - 1) = p

\* Python: p in s
Contains(s, p) == \E i \in 1..(Len(s) + 1) : StartsAt(s, i, p)

\* Python: s.endswith(p)
EndsWith(s, p) == Len(s) >= Len(p) /\ StartsAt(s, Len(s) - Len(p) + 1, p)

LowerChar(c) ==
    CASE c = "D" -> "d" [] c = "A" -> "a" [] c = "T" -> "t" [] c = "E" -> "e"
      [] c = "S" -> "s" [] c = "Q" -> "q" [] c = "L" -> "l" [] c = "N" -> "n"
      [] OTHER -> c

\* Python: s.lower()
Lower(s) == [i \in 1..Len(s) |-> LowerChar(s[i])]

Whitespace == {" ", "\n"}

RECURSIVE LStrip(_)
LStrip(s) == IF s # <<>> /\ Head(s) \in Whitespace THEN LStrip(Tail(s)) ELSE s

RECURSIVE RStrip(_)
RStrip(s) ==
    IF s # <<>> /\ s[Len(s)] \in Whitespace THEN RStrip(SubSeq(s, 1, Len(s) - 1)) ELSE s

\* Python: s.strip()
Strip(s) == RStrip(LStrip(s))

Digits == {"0", "1", "2", "3", "4", "5", "6", "7", "8", "9"}

DigitVal(c) ==
    CASE c = "0" -> 0 [] c = "1" -> 1 [] c = "2" -> 2 [] c = "3" -> 3 [] c = "4" -> 4
      [] c = "5" -> 5 [] c = "6" -> 6 [] c = "7" -> 7 [] c = "8" -> 8 [] c = "9" -> 9

DigitChar(d) ==
    CASE d = 0 -> "0" [] d = 1 -> "1" [] d = 2 -> "2" [] d = 3 -> "3" [] d = 4 -> "4"
      [] d = 5 -> "5" [] d = 6 -> "6" [] d = 7 -> "7" [] d = 8 -> "8" [] d = 9 -> "9"

IsDigits(s) == s # <<>> /\ \A i \in 1..Len(s) : s[i] \in Digits

RECURSIVE ParseInt(_)
\* The value of a digit string ("07" is 7).
ParseInt(s) ==
    IF s = <<>> THEN 0 ELSE 10 * ParseInt(SubSeq(s, 1, Len(s) - 1)) + DigitVal(s[Len(s)])

RECURSIVE FormatInt(_)
\* Python: str(n) for n >= 0.
FormatInt(n) == IF n < 10 THEN <<DigitChar(n)>> ELSE FormatInt(n \div 10) \o <<DigitChar(n % 10)>>


RECURSIVE DoubleQuotes(_)
\* Python: s.replace('"', '""')  (line 32, and the quote doubling of csv.writer)
DoubleQuotes(s) ==
    IF s = <<>> THEN <<>>
    ELSE (IF Head(s) = QUOTE THEN <<QUOTE, QUOTE>> ELSE <<Head(s)>>) \o DoubleQuotes(Tail(s))

RECURSIVE HalveQuotes(_)
\* The CSV reader's inverse of quote doubling: "" inside a quoted field is one ".
HalveQuotes(s) ==
    IF s = <<>> THEN <<>>
    ELSE IF Len(s) >= 2 /\ s[1] = QUOTE /\ s[2] = QUOTE
         THEN <<QUOTE>> \o HalveQuotes(SubSeq(s, 3, Len(s)))
         ELSE <<Head(s)>> \o HalveQuotes(Tail(s))

\* ------------------------------------------------------- cells and columns
\* A cell of a data frame: null (NaN/NaT), a Python str, a number, a timestamp.
NULL == [t |-> "null", s |-> <<>>, n |-> 0]
Str(s) == [t |-> "str", s |-> s, n |-> 0]
Num(n) == [t |-> "num", s |-> <<>>, n |-> n]
Ts(n) == [t |-> "ts", s |-> <<>>, n |-> n]

\* na_values=['NA', 'N/A', 'missing'] (lines 24 and 26); exact, case-sensitive.
na_values == {<<"N", "A">>, <<"N", "/", "A">>, <<"m", "i", "s", "s", "i", "n", "g">>}

NaCell(raw) == IF raw.t = "str" /\ raw.s \in na_values THEN NULL ELSE raw

\* pd.read_csv on one column: every field is text; a column whose non-null
\* fields are all numbers gets a numeric dtype, any other column is object.
read_csv_column(col) ==
    LET cells == [j \in 1..Len(col.cells) |-> NaCell(col.cells[j])]
        numeric == \A i \in 1..Len(cells) : cells[i].t = "null" \/ IsDigits(cells[i].s)
        AsNum(c) == IF c.t = "null" THEN NULL ELSE Num(ParseInt(c.s))
    IN  IF numeric
        THEN [name |-> col.name, dtype |-> "numeric", cells |-> [j \in 1..Len(cells) |-> AsNum(cells[j])]]
        ELSE [name |-> col.name, dtype |-> "object", cells |-> cells]

\* pd.read_excel on one column: cells keep their workbook type (a text cell
\* "7" stays text); the dtype is numeric only if no cell is text.
read_excel_column(col) ==
    LET cells == [j \in 1..Len(col.cells) |-> NaCell(col.cells[j])]
        numeric == \A i \in 1..Len(cells) : cells[i].t \in {"null", "num"}
    IN  [name |-> col.name, dtype |-> IF numeric THEN "numeric" ELSE "object", cells |-> cells]

CsvSuffix == <<".", "c", "s", "v">>
XlsxSuffix == <<".", "x", "l", "s", "x">>

\* Lines 23-29: which reader the file name selects.
FileKind(file) ==
    IF EndsWith(file.name, CsvSuffix) THEN "csv"
    ELSE IF EndsWith(file.name, XlsxSuffix) THEN "xlsx"
    ELSE "unsupported"

\* The reader raises on a malformed or undecodable file, and read_csv raises
\* EmptyDataError on a file without columns.
ReadRaises(file) ==
    \/ ~file.ok
    \/ FileKind(file) = "csv" /\ file.cols = <<>>

\* Lines 24 and 26: the data frame the reader returns.
ReadFrame(file) ==
    IF FileKind(file) = "csv" THEN [c \in 1..Len(file.cols) |-> read_csv_column(file.cols[c])]
    ELSE [c \in 1..Len(file.cols) |-> read_excel_column(file.cols[c])]

\* Python: str(x) of a cell, as Series.astype(str) applies it (NaN is 'nan').
AsStr(c) ==
    CASE c.t = "null" -> <<"n", "a", "n">>
      [] c.t = "str" -> c.s
      [] OTHER -> FormatInt(c.n)

EscapeCell(c) == Str(DoubleQuotes(AsStr(c)))

\* Lines 31-32: every object column is cast to str and its quotes doubled.
EscapeColumn(col) ==
    IF col.dtype = "object"
    THEN [col EXCEPT !.cells = [j \in 1..Len(col.cells) |-> EscapeCell(col.cells[j])]]
    ELSE col

\* yyyy-mm-dd with a valid month and day.
IsDateText(s) ==
    /\ Len(s) = 10
    /\ s[5] = "-" /\ s[8] = "-"
    /\ IsDigits(SubSeq(s, 1, 4)) /\ IsDigits(SubSeq(s, 6, 7)) /\ IsDigits(SubSeq(s, 9, 10))
    /\ ParseInt(SubSeq(s, 6, 7)) \in 1..12
    /\ ParseInt(SubSeq(s, 9, 10)) \in 1..31

DateVal(s) ==
    ParseInt(SubSeq(s, 1, 4)) * 10000 + ParseInt(SubSeq(s, 6, 7)) * 100 + ParseInt(SubSeq(s, 9, 10))

\* A number is read as nanoseconds since the epoch: a moment of 1970-01-01.
EpochDay == 19700101

\* pd.to_datetime(errors='coerce') on one cell (line 36); a timestamp is
\* kept as its calendar day.
to_datetime_cell(c) ==
    CASE c.t = "null" -> NULL
      [] c.t = "num" -> Ts(EpochDay)
      [] c.t = "ts" -> c
      [] OTHER -> IF IsDateText(c.s) THEN Ts(DateVal(c.s)) ELSE NULL

to_datetime(col) ==
    [name |-> col.name, dtype |-> "datetime", cells |-> [j \in 1..Len(col.cells) |-> to_datetime_cell(col.cells[j])]]

NanText == <<"n", "a", "n">>

\* A conversion that coerces instead of raising.
to_numeric_never_raises(col) == FALSE

\* pd.to_numeric raises ValueError unless every cell parses (line 39).
to_numeric_raises(col) ==
    \E i \in 1..Len(col.cells) :
        LET c == col.cells[i]
        IN  c.t = "str" /\ ~IsDigits(c.s) /\ c.s # NanText

\* A digit string becomes its number; 'nan' becomes NaN.
to_numeric_cell(c) ==
    CASE c.t = "str" -> IF IsDigits(c.s) THEN Num(ParseInt(c.s)) ELSE NULL
      [] OTHER -> c

to_numeric(col) ==
    [name |-> col.name, dtype |-> "numeric", cells |-> [j \in 1..Len(col.cells) |-> to_numeric_cell(col.cells[j])]]

DateWord == <<"d", "a", "t", "e">>

\* A name test that forgets lower().
IsDateNameCaseSensitive(name) == Contains(name, <<"d", "a", "t", "e">>)

\* Line 35: 'date' in col.lower()
IsDateName(name) == Contains(Lower(name), DateWord)

\* Lines 34-41 for one column.
InferColumn(col) ==
    IF IsDateName(col.name) THEN to_datetime(col)
    ELSE IF col.dtype = "object"
         THEN (IF to_numeric_raises(col) THEN col ELSE to_numeric(col))
         ELSE col

\* Line 45: the text of a cell in the CSV, before quoting.
CsvText(c) ==
    CASE c.t = "null" -> <<>>
      [] c.t = "str" -> c.s
      [] OTHER -> FormatInt(c.n)

\* csv.QUOTE_ALL: every field is wrapped in quotes, inner quotes doubled.
QuoteField(text) == <<QUOTE>> \o DoubleQuotes(text) \o <<QUOTE>>

WriteCell(c) == QuoteField(CsvText(c))

\* Line 45: df.to_csv(temp_path, index=False, quoting=csv.QUOTE_ALL)
to_csv(frame) ==
    [i \in 1..Len(frame) |->
        [name |-> QuoteField(frame[i].name), cells |-> [j \in 1..Len(frame[i].cells) |-> WriteCell(frame[i].cells[j])]]]

UnquoteField(f) ==
    IF Len(f) >= 2 /\ f[1] = QUOTE /\ f[Len(f)] = QUOTE
    THEN HalveQuotes(SubSeq(f, 2, Len(f) - 1))
    ELSE f

\* Line 75: read_csv_auto on the temporary file; the relation keeps every
\* field as the text the CSV holds (type sniffing is not modelled).
read_csv_auto(csvfile) ==
    [i \in 1..Len(csvfile) |->
        [name |-> UnquoteField(csvfile[i].name), cells |-> [j \in 1..Len(csvfile[i].cells) |-> UnquoteField(csvfile[i].cells[j])]]]

\* Line 47: df.columns.tolist()
ColumnNames(frame) == [i \in 1..Len(frame) |-> frame[i].name]


\* The whole of lines 23-41 on a readable file, as one function.
LoadedFrame(file) ==
    [i \in 1..Len(ReadFrame(file)) |-> InferColumn(EscapeColumn(ReadFrame(file)[i]))]

\* ------------------------------------------------------------ SQL extraction
\* The backquote character (a string of the module cannot hold it).
TICK == "tick"

\* The three backquotes of a fenced block.
Fence == <<TICK, TICK, TICK>>
OpenFence == Fence \o <<"s", "q", "l", "\n">>

\* A prefix matched without regard to case.
IsOpenAtAnyCase(s, i) == StartsAt(Lower(s), i, Lower(Fence \o <<"s", "q", "l", "\n">>))

\* The regex's literal prefix (three backquotes, sql, newline) matches at position i (case-sensitive).
IsOpenAt(s, i) == StartsAt(s, i, OpenFence)

RECURSIVE CloseLast(_, _)
\* A greedy group: it ends at the last fence at or after from; 0 if none.
CloseLast(s, from) ==
    IF from > Len(s) THEN 0
    ELSE IF CloseLast(s, from + 1) # 0 THEN CloseLast(s, from + 1)
    ELSE IF StartsAt(s, from, Fence) THEN from
    ELSE 0

RECURSIVE CloseAfter(_, _)
\* The lazy group (.*?) ends at the first fence at or after from; 0 if none.
CloseAfter(s, from) ==
    IF from > Len(s) THEN 0
    ELSE IF StartsAt(s, from, Fence) THEN from
    ELSE CloseAfter(s, from + 1)

NoMatch == [found |-> FALSE, group |-> <<>>]

RECURSIVE re_search(_, _)
\* Line 95: re.search(<fence>sql\n(.*?)<fence>, s, re.DOTALL), scanning start
\* positions from the left; group is group(1).
re_search(s, i) ==
    IF i > Len(s) THEN NoMatch
    ELSE IF IsOpenAt(s, i) /\ CloseAfter(s, i + Len(OpenFence)) # 0
         THEN [found |-> TRUE,
               group |-> SubSeq(s, i + Len(OpenFence), CloseAfter(s, i + Len(OpenFence)) - 1)]
         ELSE re_search(s, i + 1)

\* Line 98: sql_match.group(1).strip()
ExtractedSql(m) == Strip(m.group)

\* A test for blankness that forgets strip().
IsBlankNoStrip(q) == q = <<>>

\* Line 83: not user_query.strip()
IsBlank(q) == Strip(q) = <<>>

\* Lines 87-92: the prompt embeds the question verbatim in a fixed template
\* (the template text is abbreviated).
Prompt(q) == Concat(<<<<"a", "n", "a", "l", "y", "s", "t", ":", "\n">>, q, <<"\n">>, Fence, <<"s", "q", "l">>>>)

\* ------------------------------------------------------------------- inputs
None == <<>>
Some(x) == <<x>>

SeqsUpTo(S, n) == UNION {[1..k -> S] : k \in 0..n}

Keys == {<<"k">>}

Queries == {<<>>, <<" ">>, <<"q">>}

\* tempfile's directory: fixed for the process, chosen by the environment.
TempDirs == {<<"/", "t">>, <<"/", "o", "'", "b">>}
TempName == <<"/", "x", ".", "c", "s", "v">>

CsvName == <<"d", ".", "c", "s", "v">>
XlsxName == <<"d", ".", "x", "l", "s", "x">>
UpperName == <<"d", ".", "C", "S", "V">>

ColNames == {<<"a", "m", "t">>, <<"D", "a", "t", "e">>, <<"u", "p", "d", "a", "t", "e", "d">>}

GoodDate == <<"2", "0", "2", "4", "-", "0", "1", "-", "0", "5">>
BadDate == <<"2", "0", "2", "4", "-", "1", "3", "-", "4", "5">>

RawTexts == na_values \cup {<<"7">>, <<"a", QUOTE>>, GoodDate, BadDate}

\* A CSV file holds text only; a workbook also holds numbers and empty cells.
CsvCells == {Str(x) : x \in RawTexts}
XlsxCells == CsvCells \cup {Num(7), NULL}

OneColFiles ==
    {[name |-> CsvName, ok |-> TRUE, cols |-> <<[name |-> n, cells |-> c]>>] :
        n \in ColNames, c \in SeqsUpTo(CsvCells, MaxRows)}
    \cup
    {[name |-> XlsxName, ok |-> TRUE, cols |-> <<[name |-> n, cells |-> c]>>] :
        n \in ColNames, c \in SeqsUpTo(XlsxCells, MaxRows)}

\* region, sales_date, amount with one malformed date.
SalesFile ==
    [name |-> CsvName, ok |-> TRUE,
     cols |-> << [name |-> <<"r", "e", "g", "i", "o", "n">>, cells |-> <<Str(<<"e">>), Str(<<"w">>)>>],
                 [name |-> <<"s", "a", "l", "e", "s", "_", "d", "a", "t", "e">>,
                  cells |-> <<Str(GoodDate), Str(BadDate)>>],
                 [name |-> <<"a", "m", "o", "u", "n", "t">>, cells |-> <<Str(<<"7">>), Str(<<"7">>)>>] >>]

NotesFile ==
    [name |-> XlsxName, ok |-> TRUE,
     cols |-> << [name |-> <<"a", "m", "t">>, cells |-> <<Str(<<"a", QUOTE>>), Str(<<"N", "A">>)>>] >>]

\* A file the reader cannot parse.
BrokenFile == [name |-> CsvName, ok |-> FALSE, cols |-> <<>>]

\* A name the uploader accepts (it compares extensions without case) and
\* endswith('.csv') does not.
UpperFile ==
    [name |-> UpperName, ok |-> TRUE,
     cols |-> << [name |-> <<"a", "m", "t">>, cells |-> <<Str(<<"7">>)>>] >>]

\* A workbook whose sheet is empty: a frame without columns.
EmptySheet == [name |-> XlsxName, ok |-> TRUE, cols |-> <<>>]

AppFiles == {SalesFile, NotesFile, BrokenFile, UpperFile, EmptySheet}

Files == OneColFiles \cup AppFiles

\* A model response is built from these pieces of text.
UpperFence == Fence \o <<"S", "Q", "L", "\n">>
RespTokens == {OpenFence, UpperFence, Fence, <<"\n">>, <<"S">>}

Responses == {Concat(ts) : ts \in SeqsUpTo(RespTokens, MaxRespLen)}

\* The responses of the whole-application specification: prose only, one
\* block, two blocks, a block tagged SQL in capitals.
AppResponses ==
    { <<"S">>,
      Concat(<<OpenFence, <<"S", "\n">>, Fence>>),
      Concat(<<<<"S">>, OpenFence, <<"S">>, Fence, OpenFence, <<"S", "S">>, Fence>>),
      Concat(<<UpperFence, <<"S">>, Fence>>) }


\* -------------------------------------------------------------------- state
VARIABLES
    tempdir,         \* tempfile's directory
    gemini_key,      \* the key input of the sidebar (line 57)
    session_state,   \* the keys held as st.session_state.gemini_key
    uploaded_file,   \* the file uploader's value (line 64)
    user_query,      \* the question text area (line 79)
    button,          \* the run was started by a click on Submit Query (line 82)
    formShown,       \* the page shows the text area and the button
    pc,              \* where the script run stands; "idle" between runs
    frame,           \* df inside preprocess_and_save
    temp_path, columns, df,   \* the tuple line 67 unpacks
    temp_file,       \* the newest temporary CSV on disk (never deleted)
    con,             \* the DuckDB connection of this run and its relation
    gemini_response, \* line 94
    sql_query,       \* line 98
    messages,        \* what this run has written to the page
    prompts,         \* the prompts this run has sent to the model
    executed,        \* the statements this run has passed to con.execute at line 100
    uncaught,        \* this run was ended by an exception no handler caught
    past             \* history: an earlier statement changed a store, an earlier table was replaced

vars == <<tempdir, gemini_key, session_state, uploaded_file, user_query, button, formShown, pc,
          frame, temp_path, columns, df, temp_file, con, gemini_response, sql_query,
          messages, prompts, executed, uncaught, past>>

inputs == <<tempdir, gemini_key, session_state, uploaded_file, user_query, button>>
loaded == <<frame, temp_path, columns, df, temp_file>>
query == <<gemini_response, sql_query, prompts, executed>>

Msg(fn, what) == [fn |-> fn, what |-> what, text |-> <<>>]
MsgText(fn, what, text) == [fn |-> fn, what |-> what, text |-> text]

Init ==
    /\ tempdir \in TempDirs
    /\ gemini_key = NoText
    /\ session_state = {}
    /\ uploaded_file = None
    /\ user_query = NoText
    /\ button = FALSE
    /\ formShown = FALSE
    /\ pc = "idle"
    /\ frame = None /\ temp_path = None /\ columns = None /\ df = None
    /\ temp_file = None
    /\ con = None
    /\ gemini_response = None /\ sql_query = None
    /\ messages = <<>> /\ prompts = <<>> /\ executed = <<>>
    /\ uncaught = FALSE
    /\ past = [mutated |-> FALSE, replaced |-> FALSE]

\* ------------------------------------------------------- user interactions
\* Every interaction re-runs the script from the top with nothing of the
\* previous run left but the widgets' values, session_state and the disk.
BeginRun ==
    /\ pc' = "sidebar"
    /\ formShown' = FALSE
    /\ frame' = None /\ temp_path' = None /\ columns' = None /\ df' = None
    /\ con' = None
    /\ gemini_response' = None /\ sql_query' = None
    /\ messages' = <<>> /\ prompts' = <<>> /\ executed' = <<>>
    /\ uncaught' = FALSE
    /\ UNCHANGED <<tempdir, session_state, temp_file, past>>

EnterKey(k) ==
    /\ pc = "idle" /\ k # gemini_key
    /\ gemini_key' = k /\ button' = FALSE
    /\ BeginRun /\ UNCHANGED <<uploaded_file, user_query>>

ClearKey ==
    /\ pc = "idle" /\ gemini_key # NoText
    /\ gemini_key' = NoText /\ button' = FALSE
    /\ BeginRun /\ UNCHANGED <<uploaded_file, user_query>>

Upload(f) ==
    /\ pc = "idle" /\ uploaded_file # Some(f)
    /\ uploaded_file' = Some(f) /\ button' = FALSE
    /\ BeginRun /\ UNCHANGED <<gemini_key, user_query>>

RemoveFile ==
    /\ pc = "idle" /\ uploaded_file # None
    /\ uploaded_file' = None /\ button' = FALSE
    /\ BeginRun /\ UNCHANGED <<gemini_key, user_query>>

TypeQuery(q) ==
    /\ pc = "idle" /\ formShown /\ q # user_query
    /\ user_query' = q /\ button' = FALSE
    /\ BeginRun /\ UNCHANGED <<gemini_key, uploaded_file>>

ClickSubmit ==
    /\ pc = "idle" /\ formShown
    /\ button' = TRUE
    /\ BeginRun /\ UNCHANGED <<gemini_key, uploaded_file, user_query>>

\* ----------------------------------------------------------- the script run
\* Lines 55-62.
Sidebar ==
    /\ pc = "sidebar"
    /\ IF gemini_key # NoText
       THEN /\ session_state' = {gemini_key}
            /\ messages' = Append(messages, Msg("success", "key saved"))
       ELSE /\ session_state' = session_state
            /\ messages' = Append(messages, Msg("warning", "enter key"))
    /\ pc' = "guard"
    /\ UNCHANGED <<tempdir, gemini_key, uploaded_file, user_query, button, formShown>>
    /\ UNCHANGED <<loaded, con, query, uncaught, past>>

\* Line 66; a run that does not reach line 79 drops the text area's value.
UploadGuard ==
    /\ pc = "guard"
    /\ IF uploaded_file # None /\ session_state # {}
       THEN pc' = "read" /\ user_query' = user_query
       ELSE pc' = "idle" /\ user_query' = NoText
    /\ UNCHANGED <<tempdir, gemini_key, session_state, uploaded_file, button, formShown>>
    /\ UNCHANGED <<loaded, con, query, messages, uncaught, past>>

\* A failure that hands back the table read so far.
FailureResultPartial(file) == [temp_path |-> <<>>, columns |-> <<>>, df |-> <<file.cols>>]

\* Lines 29 and 50: what preprocess_and_save returns when it fails.
FailureResult(file) == [temp_path |-> None, columns |-> None, df |-> None]

\* Lines 22-29 and 48-50: the reader, the unsupported format, the handler.
ReadFile ==
    /\ pc = "read"
    /\ LET file == uploaded_file[1]
       IN  IF FileKind(file) = "unsupported" \/ ReadRaises(file)
           THEN /\ messages' = Append(messages,
                       IF FileKind(file) = "unsupported"
                       THEN Msg("error", "unsupported format")
                       ELSE Msg("error", "error processing file"))
                /\ frame' = None
                /\ temp_path' = FailureResult(file).temp_path
                /\ columns' = FailureResult(file).columns
                /\ df' = FailureResult(file).df
                /\ pc' = "loaded"
           ELSE /\ frame' = Some(ReadFrame(file))
                /\ pc' = "escape"
                /\ UNCHANGED <<messages, temp_path, columns, df>>
    /\ UNCHANGED <<inputs, formShown, temp_file, con, query, uncaught, past>>

\* Lines 31-32.
EscapeQuotes ==
    /\ pc = "escape"
    /\ frame' = Some([c \in 1..Len(frame[1]) |-> EscapeColumn(frame[1][c])])
    /\ pc' = "infer"
    /\ UNCHANGED <<inputs, formShown, temp_path, columns, df, temp_file, con, query,
                   messages, uncaught, past>>

\* Lines 34-41.
InferTypes ==
    /\ pc = "infer"
    /\ frame' = Some([c \in 1..Len(frame[1]) |-> InferColumn(frame[1][c])])
    /\ pc' = "save"
    /\ UNCHANGED <<inputs, formShown, temp_path, columns, df, temp_file, con, query,
                   messages, uncaught, past>>

\* A temporary file that is written only if none exists yet.
WriteTempOnce(old, new) == IF old = <<>> THEN new ELSE old[1]

\* Lines 43-45: a new temporary file is created and written on every call.
WriteTemp(old, new) == new

\* Lines 43-47.
SaveTemp ==
    /\ pc = "save"
    /\ temp_path' = Some(tempdir \o TempName)
    /\ temp_file' = Some(WriteTemp(temp_file, to_csv(frame[1])))
    /\ columns' = Some(ColumnNames(frame[1]))
    /\ df' = frame
    /\ frame' = None
    /\ past' = [past EXCEPT !.replaced = @ \/ (temp_file # None /\ temp_file # Some(to_csv(frame[1])))]
    /\ pc' = "loaded"
    /\ UNCHANGED <<inputs, formShown, con, query, messages, uncaught>>

\* Line 69: temp_path and columns and df is not None
TableGuard(p, c, d) == p # None /\ p # Some(NoText) /\ c # None /\ c # Some(<<>>) /\ d # None

\* Lines 67-72.
AfterLoad ==
    /\ pc = "loaded"
    /\ IF TableGuard(temp_path, columns, df)
       THEN /\ messages' = Append(messages, Msg("dataframe", "uploaded data"))
            /\ pc' = "create" /\ user_query' = user_query
       ELSE /\ messages' = messages
            /\ pc' = "idle" /\ user_query' = NoText
    /\ UNCHANGED <<tempdir, gemini_key, session_state, uploaded_file, button, formShown>>
    /\ UNCHANGED <<loaded, con, query, uncaught, past>>

\* Line 74: duckdb.connect() opens a new, empty in-memory database.
connect == [uploaded_data |-> None]

\* Line 75: the path is pasted between single quotes into the statement, so
\* a path that holds a single quote (or names no file) makes it raise.
CreateRaises(p) == p = None \/ Contains(p[1], <<"'">>)

\* Lines 74-75; nothing catches what line 75 raises.
CreateTable ==
    /\ pc = "create"
    /\ IF CreateRaises(temp_path)
       THEN /\ con' = Some(connect)
            /\ uncaught' = TRUE
            /\ messages' = Append(messages, Msg("exception", "create table"))
            /\ pc' = "idle" /\ user_query' = NoText
       ELSE /\ con' = Some([connect EXCEPT !.uploaded_data = Some(read_csv_auto(temp_file[1]))])
            /\ pc' = "form"
            /\ UNCHANGED <<uncaught, messages, user_query>>
    /\ UNCHANGED <<tempdir, gemini_key, session_state, uploaded_file, button, formShown>>
    /\ UNCHANGED <<loaded, query, past>>

\* Lines 77-85.
Form ==
    /\ pc = "form"
    /\ formShown' = TRUE
    /\ IF ~button THEN pc' = "idle" /\ messages' = messages
       ELSE IF IsBlank(user_query)
            THEN pc' = "idle" /\ messages' = Append(messages, Msg("warning", "enter a valid query"))
            ELSE pc' = "model" /\ messages' = messages
    /\ UNCHANGED <<inputs, loaded, con, query, uncaught, past>>

\* Lines 16-18 and 94: the one call to the model, answered.
ModelReplies(r) ==
    /\ pc = "model"
    /\ prompts' = Append(prompts, Prompt(user_query))
    /\ gemini_response' = Some(r)
    /\ pc' = "extract"
    /\ UNCHANGED <<inputs, formShown, loaded, con, sql_query, executed, messages, uncaught, past>>

\* Lines 94 and 106-107: the call raises and the handler reports it.
ModelFails ==
    /\ pc = "model"
    /\ prompts' = Append(prompts, Prompt(user_query))
    /\ messages' = Append(messages, Msg("error", "failed to run query"))
    /\ pc' = "idle"
    /\ UNCHANGED <<inputs, formShown, loaded, con, gemini_response, sql_query, executed,
                   uncaught, past>>

\* Lines 95-99 and 103-105.
Extract ==
    /\ pc = "extract"
    /\ LET sql_match == re_search(gemini_response[1], 1)
       IN  IF sql_match.found
           THEN /\ sql_query' = Some(ExtractedSql(sql_match))
                /\ messages' = Append(messages, MsgText("code", "sql", ExtractedSql(sql_match)))
                /\ pc' = "exec"
           ELSE /\ sql_query' = sql_query
                /\ messages' = messages \o <<Msg("warning", "no valid sql"),
                                             MsgText("markdown", "response", gemini_response[1])>>
                /\ pc' = "idle"
    /\ UNCHANGED <<inputs, formShown, loaded, con, gemini_response, prompts, executed,
                   uncaught, past>>

\* Lines 100-102: the engine runs a statement that reads the relation.
ExecuteReads ==
    /\ pc = "exec"
    /\ executed' = Append(executed, sql_query[1])
    /\ messages' = messages \o <<Msg("success", "query executed"), Msg("dataframe", "result")>>
    /\ pc' = "idle"
    /\ UNCHANGED <<inputs, formShown, loaded, con, gemini_response, sql_query, prompts,
                   uncaught, past>>

\* Lines 100-102: the engine runs a statement that changes the store
\* (nothing restricts the statement's kind); here it drops the relation.
ExecuteMutates ==
    /\ pc = "exec"
    /\ executed' = Append(executed, sql_query[1])
    /\ con' = Some([con[1] EXCEPT !.uploaded_data = None])
    /\ past' = [past EXCEPT !.mutated = TRUE]
    /\ messages' = messages \o <<Msg("success", "query executed"), Msg("dataframe", "result")>>
    /\ pc' = "idle"
    /\ UNCHANGED <<inputs, formShown, loaded, gemini_response, sql_query, prompts, uncaught>>

\* Lines 100 and 106-107: the engine rejects the statement.
ExecuteFails ==
    /\ pc = "exec"
    /\ executed' = Append(executed, sql_query[1])
    /\ messages' = Append(messages, Msg("error", "failed to run query"))
    /\ pc' = "idle"
    /\ UNCHANGED <<inputs, formShown, loaded, con, gemini_response, sql_query, prompts,
                   uncaught, past>>

Next ==
    \/ \E k \in Keys : EnterKey(k)
    \/ ClearKey
    \/ \E f \in AppFiles : Upload(f)
    \/ RemoveFile
    \/ \E q \in Queries : TypeQuery(q)
    \/ ClickSubmit
    \/ Sidebar
    \/ UploadGuard
    \/ ReadFile
    \/ EscapeQuotes
    \/ InferTypes
    \/ SaveTemp
    \/ AfterLoad
    \/ CreateTable
    \/ Form
    \/ pc = "model" /\ \E r \in AppResponses : ModelReplies(r)
    \/ ModelFails
    \/ Extract
    \/ ExecuteReads
    \/ ExecuteMutates
    \/ ExecuteFails

Spec == Init /\ [][Next]_vars

\* The loader alone: the state in which line 67 calls preprocess_and_save,
\* for every file of the bounded set.
InitLoad ==
    /\ tempdir \in TempDirs
    /\ gemini_key \in Keys
    /\ session_state = {gemini_key}
    /\ uploaded_file \in {Some(f) : f \in Files}
    /\ user_query = NoText
    /\ button = FALSE
    /\ formShown = FALSE
    /\ pc = "read"
    /\ frame = None /\ temp_path = None /\ columns = None /\ df = None
    /\ temp_file = None
    /\ con = None
    /\ gemini_response = None /\ sql_query = None
    /\ messages = <<Msg("success", "key saved")>> /\ prompts = <<>> /\ executed = <<>>
    /\ uncaught = FALSE
    /\ past = [mutated |-> FALSE, replaced |-> FALSE]

NextLoad == ReadFile \/ EscapeQuotes \/ InferTypes \/ SaveTemp \/ AfterLoad

SpecLoad == InitLoad /\ [][NextLoad]_vars


\* The question pipeline alone: the state in which line 94 is about to call
\* the model, after a click on Submit Query with a loaded file and a
\* non-blank question, for every response of the bounded set.
InitQuery ==
    /\ tempdir = <<"/", "t">>
    /\ gemini_key \in Keys
    /\ session_state = {gemini_key}
    /\ uploaded_file \in {Some(SalesFile), Some(NotesFile)}
    /\ user_query = <<"q">>
    /\ button = TRUE
    /\ formShown = TRUE
    /\ pc = "model"
    /\ frame = None
    /\ temp_path = Some(tempdir \o TempName)
    /\ columns = Some(ColumnNames(LoadedFrame(uploaded_file[1])))
    /\ df = Some(LoadedFrame(uploaded_file[1]))
    /\ temp_file = Some(to_csv(LoadedFrame(uploaded_file[1])))
    /\ con = Some([uploaded_data |-> Some(read_csv_auto(temp_file[1]))])
    /\ gemini_response = None /\ sql_query = None
    /\ messages = <<Msg("success", "key saved"), Msg("dataframe", "uploaded data")>>
    /\ prompts = <<>> /\ executed = <<>>
    /\ uncaught = FALSE
    /\ past = [mutated |-> FALSE, replaced |-> FALSE]

NextQuery ==
    \/ pc = "model" /\ \E r \in Responses : ModelReplies(r)
    \/ ModelFails
    \/ Extract
    \/ ExecuteReads
    \/ ExecuteMutates
    \/ ExecuteFails

SpecQuery == InitQuery /\ [][NextQuery]_vars

\* InitQuery and InitLoad are states of the application.
NotInitQuery == ~InitQuery
NotInitLoad == ~(InitLoad /\ uploaded_file \in {Some(f) : f \in AppFiles})


\* ------------------------------------------------------------------- claims
HasMessage(fn, what) == \E k \in 1..Len(messages) : messages[k].fn = fn /\ messages[k].what = what

Least(S) == CHOOSE x \in S : \A y \in S : x <= y

\* The positions where a fence, sql and a newline open a block that some
\* later fence closes.
BlockStarts(s) ==
    {i \in 1..Len(s) :
        /\ StartsAt(s, i, Fence \o <<"s", "q", "l", "\n">>)
        /\ \E j \in (i + 7)..Len(s) : StartsAt(s, j, Fence)}

\* The text between the first block's opener and the next fence.
FirstInterior(s) ==
    LET i == Least(BlockStarts(s))
        j == Least({k \in (i + 7)..Len(s) : StartsAt(s, k, Fence)})
    IN  SubSeq(s, i + 7, j - 1)

\* t is s without its leading and trailing whitespace.
IsTrimOf(t, s) ==
    \E a \in 1..(Len(s) + 1), b \in 0..Len(s) :
        /\ t = SubSeq(s, a, b)
        /\ \A k \in 1..Len(s) : (k < a \/ k > b) => s[k] \in {" ", "\n"}
        /\ t # <<>> => t[1] \notin {" ", "\n"} /\ t[Len(t)] \notin {" ", "\n"}

\* C1: every failure of a step of a user action is caught at the action's
\* boundary and reported; no run is ended by a failure nothing caught.
C1_NoFailureEscapes == ~uncaught

\* C2: once extraction has run, the SQL is the trimmed interior of the first
\* block opened by fence-sql-newline and closed by the next fence, there is
\* no SQL when the response has no such block, and what is passed to the
\* store is exactly that text.
C2_FirstBlockExecutedVerbatim ==
    /\ (gemini_response # None /\ pc # "extract") =>
          IF BlockStarts(gemini_response[1]) = {}
          THEN sql_query = None
          ELSE sql_query # None /\ IsTrimOf(sql_query[1], FirstInterior(gemini_response[1]))
    /\ \A k \in 1..Len(executed) : sql_query # None /\ executed[k] = sql_query[1]
    /\ (pc = "idle" /\ sql_query # None) => Len(executed) = 1

\* Two complete blocks, the first with a non-empty interior, and the first
\* one's statement passed to the store.
C2_Witness ==
    /\ pc = "idle" /\ gemini_response # None /\ sql_query # None
    /\ Cardinality(BlockStarts(gemini_response[1])) >= 2
    /\ executed = <<FirstInterior(gemini_response[1])>>
    /\ executed[1] # <<>>

\* C3: when the response holds no fenced sql block, the raw response is
\* shown, nothing is passed to the store and no error is reported.
C3_NoBlockShowsRawText ==
    (gemini_response # None /\ BlockStarts(gemini_response[1]) = {}) =>
        /\ pc \in {"extract", "idle"}
        /\ executed = <<>>
        /\ ~HasMessage("error", "failed to run query")
        /\ pc = "idle" =>
              /\ messages[Len(messages)] = MsgText("markdown", "response", gemini_response[1])
              /\ ~HasMessage("code", "sql")

\* A response that holds fences, but no sql block, after it was handled.
C3_Witness ==
    /\ pc = "idle" /\ gemini_response # None
    /\ BlockStarts(gemini_response[1]) = {}
    /\ Contains(gemini_response[1], Fence)
    /\ HasMessage("markdown", "response")

\* The file cannot be loaded: its name ends in neither .csv nor .xlsx, or
\* the reader cannot parse it.
FileFails(f) ==
    \/ ~f.ok
    \/ ~(EndsWith(f.name, <<".", "c", "s", "v">>) \/ EndsWith(f.name, <<".", "x", "l", "s", "x">>))

\* C7: when the load fails the loader returns no table, no column list and
\* no path, and the run creates no table, calls no model and executes no SQL.
C7_FailedLoadLeavesNothing ==
    (uploaded_file # None /\ FileFails(uploaded_file[1])) =>
        /\ frame = None /\ df = None /\ columns = None /\ temp_path = None
        /\ con = None
        /\ prompts = <<>> /\ executed = <<>>
        /\ pc \in {"sidebar", "guard", "read", "loaded", "idle"}

\* The run of an upload whose extension is not supported has ended.
C7_Witness ==
    /\ pc = "idle" /\ uploaded_file # None
    /\ HasMessage("error", "unsupported format")
    /\ df = None /\ con = None

NonBlank(q) == \E k \in 1..Len(q) : q[k] \notin {" ", "\n"}

\* C8: a submitted non-blank question causes exactly one model call, also
\* when the call fails, and at most one SQL execution; a blank one causes
\* neither; no run calls the model or executes SQL without a submission.
C8_OneCallPerQuestion ==
    /\ Len(prompts) <= 1 /\ Len(executed) <= 1
    /\ ~button => prompts = <<>> /\ executed = <<>>
    /\ (button /\ pc = "idle") =>
          IF NonBlank(user_query)
          THEN Len(prompts) = 1
          ELSE prompts = <<>> /\ executed = <<>>

\* A submitted question whose model call failed: one call, reported, no
\* second call.
C8_Witness ==
    /\ pc = "idle" /\ button /\ NonBlank(user_query)
    /\ gemini_response = None
    /\ Len(prompts) = 1
    /\ HasMessage("error", "failed to run query")

\* C9: while the API key is absent (never entered, or cleared from the key
\* input) no file is loaded into the store, no model call is made and no
\* SQL is executed.
C9_NoKeyNoWork ==
    (gemini_key = NoText \/ session_state = {}) =>
        /\ con = None \/ con[1].uploaded_data = None
        /\ prompts = <<>> /\ executed = <<>>

\* C10: when a statement is executed, uploaded_data is exactly the table
\* loaded from the file that is uploaded now.
C10_StoreHoldsCurrentUpload ==
    pc = "exec" =>
        /\ uploaded_file # None
        /\ df = Some(LoadedFrame(uploaded_file[1]))
        /\ con = Some([uploaded_data |-> Some(read_csv_auto(to_csv(LoadedFrame(uploaded_file[1]))))])

\* A statement is about to run after an earlier statement changed a store
\* and an earlier upload's table was replaced.
C10_Witness == pc = "exec" /\ past.mutated /\ past.replaced


\* The three missing-value tokens.
IsMissingToken(c) ==
    c.t = "str" /\ c.s \in {<<"N", "A">>, <<"N", "/", "A">>, <<"m", "i", "s", "s", "i", "n", "g">>}

\* The file of this run as the reader parses it, and the columns it holds.
Source == ReadFrame(uploaded_file[1])
ColIdx == 1..Len(uploaded_file[1].cols)
RowIdx(i) == 1..Len(uploaded_file[1].cols[i].cells)

\* C4: when type inference runs, every cell whose source value is NA, N/A
\* or missing is null, in every column.
C4_MissingIsNullAtInference ==
    pc = "infer" =>
        \A i \in ColIdx : \A j \in RowIdx(i) :
            IsMissingToken(uploaded_file[1].cols[i].cells[j]) => frame[1][i].cells[j] = NULL

\* The name holds d, a, t, e in a row, in any letter case.
HasDateInName(name) ==
    \E k \in 1..(Len(name) - 3) :
        /\ name[k] \in {"d", "D"} /\ name[k + 1] \in {"a", "A"}
        /\ name[k + 2] \in {"t", "T"} /\ name[k + 3] \in {"e", "E"}

\* A text column of the parsed source whose name does not hold date.
IsTextColumn(i) == Source[i].dtype = "object" /\ ~HasDateInName(Source[i].name)

NumericParseable(c) == c.t = "null" \/ c.t = "num" \/ (c.t = "str" /\ IsDigits(c.s))

AllParseable(i) == \A j \in RowIdx(i) : NumericParseable(Source[i].cells[j])

AsNumber(c) == IF c.t = "str" THEN Num(ParseInt(c.s)) ELSE c

ConvertedToNumeric(i) ==
    /\ df[1][i].dtype = "numeric"
    /\ \A j \in RowIdx(i) : df[1][i].cells[j] = AsNumber(Source[i].cells[j])

\* C5 as stated: a text column is converted to numeric if every non-null
\* value parses, and is otherwise left with the values of the parsed source.
C5_AllOrNothingUnchanged ==
    (pc = "loaded" /\ df # None) =>
        \A i \in ColIdx : IsTextColumn(i) =>
            IF AllParseable(i) THEN ConvertedToNumeric(i) ELSE df[1][i] = Source[i]

\* The text a cell has after the quote-escaping pass: str() of the value,
\* every double quote doubled.
EscapedText(c) ==
    LET text == CASE c.t = "null" -> <<"n", "a", "n">>
                  [] c.t = "str" -> c.s
                  [] OTHER -> FormatInt(c.n)
    IN  Str(DoubleQuotes(text))

\* C5 as amended: a text column is converted to numeric if every non-null
\* value parses; otherwise no cell of it is converted and it stays the text
\* column the quote-escaping pass made of it.
C5_AllOrNothing ==
    (pc = "loaded" /\ df # None) =>
        \A i \in ColIdx : IsTextColumn(i) =>
            IF AllParseable(i)
            THEN ConvertedToNumeric(i)
            ELSE /\ df[1][i].dtype = "object"
                 /\ df[1][i].name = Source[i].name
                 /\ \A j \in RowIdx(i) : df[1][i].cells[j] = EscapedText(Source[i].cells[j])

\* A loaded text column with one value that parses and one that does not.
C5_Witness ==
    /\ pc = "loaded" /\ df # None
    /\ \E i \in ColIdx :
          /\ IsTextColumn(i)
          /\ \E j \in RowIdx(i) : Source[i].cells[j].t = "str" /\ IsDigits(Source[i].cells[j].s)
          /\ \E j \in RowIdx(i) : ~NumericParseable(Source[i].cells[j])
          /\ df[1][i].dtype = "object"

\* What the timestamp rule makes of a value: a number of a numeric column is
\* a moment of the epoch's first day, a value of a text column is parsed
\* from its text, anything unparseable is null.
DateOutcome(col, c) ==
    CASE c.t = "null" -> NULL
      [] c.t = "num" /\ col.dtype = "numeric" -> Ts(19700101)
      [] c.t = "str" /\ IsDateText(c.s) -> Ts(DateVal(c.s))
      [] OTHER -> NULL

\* C6: in a column whose name holds date in any case, of any raw type, every
\* parseable value is a timestamp and every other value null; the load of a
\* readable file does not fail.
C6_DateColumnsCoerced ==
    (pc = "loaded" /\ ~FileFails(uploaded_file[1]) /\ Source # <<>>) =>
        /\ df # None
        /\ \A i \in ColIdx : HasDateInName(Source[i].name) =>
              /\ df[1][i].dtype = "datetime"
              /\ \A j \in RowIdx(i) : df[1][i].cells[j] = DateOutcome(Source[i], Source[i].cells[j])

\* A loaded column named with a capital D that holds a timestamp and a
\* value that did not parse.
C6_Witness ==
    /\ pc = "loaded" /\ df # None
    /\ \E i \in ColIdx :
          /\ Source[i].name[1] = "D" /\ HasDateInName(Source[i].name)
          /\ \E j \in RowIdx(i) : df[1][i].cells[j].t = "ts"
          /\ \E j \in RowIdx(i) : Source[i].cells[j].t = "str" /\ df[1][i].cells[j] = NULL

====
